---- MODULE Spec2Model ----
(***************************************************************************)
(* Model of the function-inversion and interval-algebra engine of alpaca:  *)
(*   interval_intersections.py            (interval algebra)               *)
(*   inversion_by_grid_evaluation.py      (invert_grid)                    *)
(*   find_delta.py, analyzing_power.py    (find_delta_brute_force)         *)
(*   inversion_by_piecewise_interpolation.py (find_indices_of_extrema)     *)
(*                                                                         *)
(* Every routine is a pure function of its arguments.  A behaviour is one  *)
(* call: the initial state holds the name of the routine (op) and its      *)
(* arguments (args), the single step of the routine computes its return    *)
(* value (ret), the exception it raises (raised) and the locals that are   *)
(* of interest (locals).  Floating point numbers are modelled by integers; *)
(* a Python list and a numpy array are modelled by a sequence, None and    *)
(* the empty list by the empty sequence.                                   *)
(***************************************************************************)
EXTENDS Integers, Sequences, FiniteSets, TLC

VARIABLES op, args, pc, ret, raised, locals

vars == <<op, args, pc, ret, raised, locals>>

(* ------------------------------ bounds --------------------------------- *)

\* Largest end point of the intervals given to intersection_of_two_intervals.
MaxSlots == 4

MaxVal == 3

\* Largest end point of the intervals inside the interval lists.
MaxListVal == 1

\* Largest total number of intervals in the two lists given to intersection.
MaxListTotal == 4

Vals == 0..MaxVal

\* Intervals as the caller gives them: the two limits in any order.
Pairs == Vals \X Vals

ListPairs == (0..MaxListVal) \X (0..MaxListVal)

\* Largest length of a list of intervals that is intersected with itself.
MaxSelfLen == 3

\* The intervals [lo, hi] with lo <= hi.
SortedPairs == {p \in Pairs : p[1] <= p[2]}

\* Largest number of points of a curve given to interpolate_and_invert.
MaxCurveLen == 5

\* Largest value of y on such a curve.
MaxCurveY == 3

\* Largest number of samples of a sampled curve or of a parameter sweep.
MaxLen == 3

\* Largest sampled function value, observable, and limit of a target range.
MaxFx == 2

\* Largest absolute tolerance.
MaxAtol == 1

\* Largest length of a sequence given to find_indices_of_extrema.
MaxLenY == 7

\* Largest value in such a sequence.
MaxY == 2

FxVals == 0..MaxFx

AtolVals == 0..MaxAtol

\* A target: a scalar y0 is the sequence <<y0>>, a range the sequence of its
\* two limits in the order in which the caller gives them.
Targets == {<<v>> : v \in FxVals} \cup (FxVals \X FxVals)

\* isinstance(y, (int, float))
IsScalar(y) == Len(y) = 1

NoLocals == [none |-> TRUE]

(* ------------------------- interval_intersections.py -------------------- *)

\* np.sort of a two-element interval.
np_sort(interval) ==
    IF interval[1] <= interval[2] THEN interval ELSE <<interval[2], interval[1]>>

\* The first comparison made inclusive: touching intervals are dropped.
intersection_of_two_intervals_exclusive(interval_1, interval_2) ==
    LET i1 == np_sort(interval_1)
        i2 == np_sort(interval_2)
    IN  IF i1[1] >= i2[2] THEN <<>>
        ELSE IF i1[1] >= i2[1] /\ i1[1] <= i2[2]
             THEN IF i1[2] <= i2[2] THEN <<i1[1], i1[2]>> ELSE <<i1[1], i2[2]>>
        ELSE IF i1[2] > i2[1]
             THEN IF i1[2] <= i2[2] THEN <<i2[1], i1[2]>> ELSE <<i2[1], i2[2]>>
        ELSE <<>>

\* The first interval is returned whenever the two overlap.
intersection_of_two_intervals_first(interval_1, interval_2) ==
    LET i1 == np_sort(interval_1)
        i2 == np_sort(interval_2)
    IN  IF i1[1] > i2[2] THEN <<>>
        ELSE IF i1[1] >= i2[1] /\ i1[1] <= i2[2] THEN <<i1[1], i1[2]>>
        ELSE IF i1[2] >= i2[1] THEN <<i1[1], i1[2]>>
        ELSE <<>>

intersection_of_two_intervals(interval_1, interval_2) ==
    LET i1 == np_sort(interval_1)
        i2 == np_sort(interval_2)
    IN  IF i1[1] > i2[2] THEN <<>>
        ELSE IF i1[1] >= i2[1] /\ i1[1] <= i2[2]
             THEN IF i1[2] <= i2[2] THEN <<i1[1], i1[2]>> ELSE <<i1[1], i2[2]>>
        ELSE IF i1[2] >= i2[1]
             THEN IF i1[2] <= i2[2] THEN <<i2[1], i1[2]>> ELSE <<i2[1], i2[2]>>
        ELSE <<>>

\* The loop ends with the first interval of the list that meets interval_1.
RECURSIVE interval_with_list_loop_first_hit(_, _, _, _)
interval_with_list_loop_first_hit(interval_1, list_of_intervals, k, intersections) ==
    IF k > Len(list_of_intervals) THEN intersections
    ELSE LET intersection_k ==
                 intersection_of_two_intervals(interval_1, list_of_intervals[k])
         IN  IF Len(intersection_k) > 0
             THEN Append(intersections, intersection_k)
             ELSE interval_with_list_loop_first_hit(
                      interval_1, list_of_intervals, k + 1, intersections)

\* The for loop of intersection_of_interval_with_list_of_intervals, from the
\* k-th interval of the list on, with the intersections collected so far.
RECURSIVE interval_with_list_loop(_, _, _, _)
interval_with_list_loop(interval_1, list_of_intervals, k, intersections) ==
    IF k > Len(list_of_intervals) THEN intersections
    ELSE LET intersection_k ==
                 intersection_of_two_intervals(interval_1, list_of_intervals[k])
         IN  interval_with_list_loop(
                 interval_1, list_of_intervals, k + 1,
                 IF Len(intersection_k) > 0
                 THEN Append(intersections, intersection_k)
                 ELSE intersections)

intersection_of_interval_with_list_of_intervals(interval_1, list_of_intervals) ==
    interval_with_list_loop(interval_1, list_of_intervals, 1, <<>>)

\* The for loop of intersection, from the k-th interval of the first list on.
RECURSIVE intersection_loop(_, _, _, _)
intersection_loop(list_of_intervals_1, list_of_intervals_2, k, intersections) ==
    IF k > Len(list_of_intervals_1) THEN intersections
    ELSE LET intersection_k ==
                 intersection_of_interval_with_list_of_intervals(
                     list_of_intervals_1[k], list_of_intervals_2)
         IN  intersection_loop(
                 list_of_intervals_1, list_of_intervals_2, k + 1,
                 IF Len(intersection_k) > 0
                 THEN intersections \o intersection_k
                 ELSE intersections)

\* The two loops nested the other way round.
intersection_nested_by_second_list(list_of_intervals_1, list_of_intervals_2) ==
    intersection_loop(list_of_intervals_2, list_of_intervals_1, 1, <<>>)

intersection(list_of_intervals_1, list_of_intervals_2) ==
    intersection_loop(list_of_intervals_1, list_of_intervals_2, 1, <<>>)

(* --------------------- inversion_by_grid_evaluation.py ------------------ *)

Abs(v) == IF v < 0 THEN -v ELSE v

\* Both comparisons made strict.
inequality_exclusive(fx, y, atol) ==
    [i \in 1..Len(fx) |-> fx[i] > y[1] - atol /\ fx[i] < y[2] + atol]

\* inequality = (fx >= y[0] - atol) * (fx <= y[1] + atol), y a sorted range.
inequality(fx, y, atol) ==
    [i \in 1..Len(fx) |-> fx[i] >= y[1] - atol /\ fx[i] <= y[2] + atol]

\* np.extract(condition, arr), from index i on.
RECURSIVE np_extract_loop(_, _, _, _)
np_extract_loop(condition, arr, i, extracted) ==
    IF i > Len(condition) THEN extracted
    ELSE np_extract_loop(condition, arr, i + 1,
                         IF condition[i] THEN Append(extracted, arr[i])
                         ELSE extracted)

np_extract(condition, arr) == np_extract_loop(condition, arr, 1, <<>>)

\* A run is closed with the first sample after it, not with its last sample.
invert_grid_intervals_body_late(x, matching, i, st) ==
    LET s1 == IF matching /\ st.interval_start = <<>>
              THEN [st EXCEPT !.interval_start = <<x[i]>>]
              ELSE st
        s2 == IF ~matching /\ s1.interval_start # <<>>
              THEN [intervals |->
                        Append(s1.intervals, <<s1.interval_start[1], x[i]>>),
                    interval_start |-> <<>>]
              ELSE s1
        s3 == IF i = Len(x) /\ s2.interval_start # <<>>
              THEN [s2 EXCEPT !.intervals =
                        Append(s2.intervals, <<s2.interval_start[1], x[Len(x)]>>)]
              ELSE s2
    IN  s3

\* The run that is still open at the last sample is never closed.
invert_grid_intervals_body_open(x, matching, i, st) ==
    LET s1 == IF matching /\ st.interval_start = <<>>
              THEN [st EXCEPT !.interval_start = <<x[i]>>]
              ELSE st
        s2 == IF ~matching /\ s1.interval_start # <<>>
              THEN [intervals |->
                        Append(s1.intervals, <<s1.interval_start[1], x[i - 1]>>),
                    interval_start |-> <<>>]
              ELSE s1
    IN  s2

\* One pass of the body of the coalescing loop of invert_grid for the
\* (1-based) index i; interval_start is <<>> for None and <<v>> for v.
\* The three ifs are executed one after the other.
invert_grid_intervals_body(x, matching, i, st) ==
    LET s1 == IF matching /\ st.interval_start = <<>>
              THEN [st EXCEPT !.interval_start = <<x[i]>>]
              ELSE st
        s2 == IF ~matching /\ s1.interval_start # <<>>
              THEN [intervals |->
                        Append(s1.intervals, <<s1.interval_start[1], x[i - 1]>>),
                    interval_start |-> <<>>]
              ELSE s1
        s3 == IF i = Len(x) /\ s2.interval_start # <<>>
              THEN [s2 EXCEPT !.intervals =
                        Append(s2.intervals, <<s2.interval_start[1], x[Len(x)]>>)]
              ELSE s2
    IN  s3

RECURSIVE invert_grid_intervals_loop(_, _, _, _)
invert_grid_intervals_loop(x, mask, i, st) ==
    IF i > Len(mask) THEN st.intervals
    ELSE invert_grid_intervals_loop(
             x, mask, i + 1, invert_grid_intervals_body(x, mask[i], i, st))

\* The return_intervals branch of invert_grid.
invert_grid_intervals(x, mask) ==
    invert_grid_intervals_loop(
        x, mask, 1, [intervals |-> <<>>, interval_start |-> <<>>])

\* The limits of a range are used in the order in which they are given.
invert_grid_range_unsorted(y) ==
    IF IsScalar(y) THEN <<y[1], y[1]>> ELSE y

\* y as invert_grid uses it: a scalar becomes [y, y], a reversed range is
\* swapped.
invert_grid_range(y) ==
    LET y2 == IF IsScalar(y) THEN <<y[1], y[1]>> ELSE y
    IN  IF y2[2] < y2[1] THEN <<y2[2], y2[1]>> ELSE y2

\* invert_grid: the exception raised, the value returned and the mask.
invert_grid(x, fx, y, atol, return_intervals) ==
    IF Len(fx) # Len(x)
    THEN [raised |-> "ValueError", ret |-> <<>>, locals |-> NoLocals]
    ELSE LET mask == inequality(fx, invert_grid_range(y), atol)
             x_results == np_extract(mask, x)
         IN  [raised |-> "none",
              ret |-> IF return_intervals
                      THEN invert_grid_intervals(x, mask)
                      ELSE x_results,
              locals |-> [inequality |-> mask]]

(* -------------------- find_delta.py, analyzing_power.py ----------------- *)

\* np.linspace(-arctan_delta_max, arctan_delta_max, n_delta): n_delta evenly
\* spaced points, counted in half steps from the centre of the range; the
\* only point for n_delta = 1 is the lower limit.
np_linspace(n_delta) ==
    [i \in 1..n_delta |-> IF n_delta = 1 THEN -1 ELSE 2 * (i - 1) - (n_delta - 1)]

\* np.tan on the grid: odd, strictly increasing, and stretching the tails.
np_tan(u) == u * (1 + Abs(u))

\* deltas = np.tan(arctan_deltas)
find_delta_deltas(n_delta) ==
    [i \in 1..n_delta |-> np_tan(np_linspace(n_delta)[i])]

\* The entries of delta_values: an arbitrary string (the variable), a callable
\* (here lambda x: -x, the example of the documentation) or a number.
Variable == [kind |-> "str", value |-> 0]

Derived == [kind |-> "callable", value |-> 0]

Number(v) == [kind |-> "float", value |-> v]

\* delta_values[j](delta) for the callable lambda x: -x
call_delta_value(slot, delta) == -delta

Slots == {Variable, Derived, Number(5)}

\* The mixing ratios given to Transition for one sample, method
\* AnalyzingPower.find_delta_brute_force: str / callable / else.
AnalyzingPower_cascade_steps(delta_values, delta) ==
    [j \in 1..Len(delta_values) |->
        IF delta_values[j].kind = "str" THEN Number(delta)
        ELSE IF delta_values[j].kind = "callable"
             THEN Number(call_delta_value(delta_values[j], delta))
        ELSE delta_values[j]]

\* The same for the function find_delta_brute_force of find_delta.py:
\* str / else.
find_delta_cascade_steps(delta_values, delta) ==
    [j \in 1..Len(delta_values) |->
        IF delta_values[j].kind = "str" THEN Number(delta)
        ELSE delta_values[j]]

\* The cascade steps as the routine that runs builds them.
cascade_steps(routine, delta_values, delta) ==
    IF routine = "AnalyzingPower.find_delta_brute_force"
    THEN AnalyzingPower_cascade_steps(delta_values, delta)
    ELSE find_delta_cascade_steps(delta_values, delta)

\* The values of an observable that are no numbers of the model: the quotient
\* of AnalyzingPower.__call__ for non-finite angular correlations.  Every
\* finite value of the model lies strictly between NegInf and PosInf.
PosInf == 1000

NegInf == 0 - 1000

NaN == 2000

NonFinite == {NaN, PosInf, NegInf}

\* a <= b and a < b for floats: False if one of them is NaN.
float_le(a, b) == a # NaN /\ b # NaN /\ a <= b

float_lt(a, b) == a # NaN /\ b # NaN /\ a < b

\* a - b for a finite b.
float_sub(a, b) == IF a \in NonFinite THEN a ELSE a - b

np_abs(a) == IF a = NaN THEN NaN ELSE IF a = NegInf THEN PosInf ELSE Abs(a)

\* The band test written as "not outside the band".
find_delta_is_match_negated(ana_pow, value, atol) ==
    IF IsScalar(value)
    THEN ~float_le(atol, np_abs(float_sub(ana_pow, value[1])))
    ELSE ~(float_lt(ana_pow, value[1] - atol) \/ float_lt(value[2] + atol, ana_pow))

\* The test that marks a sample as matching: np.abs(ana_pow - value) < atol
\* for a scalar value, value[0] - atol <= ana_pow <= value[1] + atol otherwise.
find_delta_is_match(ana_pow, value, atol) ==
    IF IsScalar(value)
    THEN float_lt(np_abs(float_sub(ana_pow, value[1])), atol)
    ELSE float_le(value[1] - atol, ana_pow) /\ float_le(ana_pow, value[2] + atol)

\* A matching parameter is put in front of the results found so far.
RECURSIVE find_delta_sweep_loop_prepend(_, _, _, _, _, _, _)
find_delta_sweep_loop_prepend(routine, deltas, delta_values, ana_pow, value, atol, st) ==
    LET i == Len(st.evaluator_calls) + 1
    IN  IF i > Len(deltas) THEN st
        ELSE LET matching == find_delta_is_match(ana_pow[i], value, atol)
             IN  find_delta_sweep_loop_prepend(
                     routine, deltas, delta_values, ana_pow, value, atol,
                     [evaluator_calls |->
                          Append(st.evaluator_calls,
                                 cascade_steps(routine, delta_values, deltas[i])),
                      delta_results |->
                          IF matching THEN <<deltas[i]>> \o st.delta_results
                          ELSE st.delta_results,
                      delta_matches |->
                          IF matching THEN [st.delta_matches EXCEPT ![i] = TRUE]
                          ELSE st.delta_matches])

\* The loop over the samples, from sample i on.  ana_pow[i] is the value the
\* evaluator returns for sample i; evaluator_calls records what it was given.
RECURSIVE find_delta_sweep_loop(_, _, _, _, _, _, _)
find_delta_sweep_loop(routine, deltas, delta_values, ana_pow, value, atol, st) ==
    LET i == Len(st.evaluator_calls) + 1
    IN  IF i > Len(deltas) THEN st
        ELSE LET matching == find_delta_is_match(ana_pow[i], value, atol)
             IN  find_delta_sweep_loop(
                     routine, deltas, delta_values, ana_pow, value, atol,
                     [evaluator_calls |->
                          Append(st.evaluator_calls,
                                 cascade_steps(routine, delta_values, deltas[i])),
                      delta_results |->
                          IF matching THEN Append(st.delta_results, deltas[i])
                          ELSE st.delta_results,
                      delta_matches |->
                          IF matching THEN [st.delta_matches EXCEPT ![i] = TRUE]
                          ELSE st.delta_matches])

\* One pass of the body of the coalescing loop of find_delta_brute_force.
find_delta_intervals_body(deltas, matching, i, st) ==
    LET s1 == IF matching /\ st.interval_start = <<>>
              THEN [st EXCEPT !.interval_start = <<deltas[i]>>]
              ELSE st
        s2 == IF ~matching /\ s1.interval_start # <<>>
              THEN [intervals |->
                        Append(s1.intervals, <<s1.interval_start[1], deltas[i]>>),
                    interval_start |-> <<>>]
              ELSE s1
        s3 == IF i = Len(deltas) /\ s2.interval_start # <<>>
              THEN [s2 EXCEPT !.intervals =
                        Append(s2.intervals,
                               <<s2.interval_start[1], deltas[Len(deltas)]>>)]
              ELSE s2
    IN  s3

RECURSIVE find_delta_intervals_loop(_, _, _, _)
find_delta_intervals_loop(deltas, delta_matches, i, st) ==
    IF i > Len(delta_matches) THEN st.intervals
    ELSE find_delta_intervals_loop(
             deltas, delta_matches, i + 1,
             find_delta_intervals_body(deltas, delta_matches[i], i, st))

find_delta_intervals(deltas, delta_matches) ==
    find_delta_intervals_loop(
        deltas, delta_matches, 1, [intervals |-> <<>>, interval_start |-> <<>>])

\* The body the method and the function share word for word, but for the
\* way the entries of delta_values are resolved.
find_delta_body(routine, value, delta_values, n_delta, atol, return_intervals, ana_pow) ==
    LET deltas == find_delta_deltas(n_delta)
        swept  == find_delta_sweep_loop(
                      routine, deltas, delta_values, ana_pow, value, atol,
                      [evaluator_calls |-> <<>>,
                       delta_results |-> <<>>,
                       delta_matches |-> [i \in 1..n_delta |-> FALSE]])
    IN  [raised |-> "none",
         ret |-> IF return_intervals
                 THEN find_delta_intervals(deltas, swept.delta_matches)
                 ELSE <<swept.delta_results, swept.delta_matches>>,
         locals |-> [deltas |-> deltas,
                     delta_results |-> swept.delta_results,
                     delta_matches |-> swept.delta_matches,
                     evaluator_calls |-> swept.evaluator_calls]]

\* AnalyzingPower.find_delta_brute_force (analyzing_power.py)
AnalyzingPower_find_delta_brute_force(asymmetry, delta_values, n_delta, atol, return_intervals, ana_pow) ==
    find_delta_body("AnalyzingPower.find_delta_brute_force", asymmetry,
                    delta_values, n_delta, atol, return_intervals, ana_pow)

\* find_delta_brute_force (find_delta.py)
find_delta_brute_force(analyzing_power_value, delta_values, n_delta, atol, return_intervals, ana_pow) ==
    find_delta_body("find_delta_brute_force", analyzing_power_value,
                    delta_values, n_delta, atol, return_intervals, ana_pow)

(* ----------------- inversion_by_piecewise_interpolation.py -------------- *)

\* y[i] for a Python (0-based) index i.
At(y, i) == y[i + 1]

\* Plain comparison of each element with its two neighbours, equal elements
\* not skipped.
RECURSIVE find_indices_of_extrema_adjacent_loop(_, _, _)
find_indices_of_extrema_adjacent_loop(y, this, indices) ==
    IF ~(this + 1 < Len(y)) THEN indices
    ELSE find_indices_of_extrema_adjacent_loop(
             y, this + 1,
             IF \/ At(y, this) > At(y, this - 1) /\ At(y, this) > At(y, this + 1)
                \/ At(y, this) < At(y, this - 1) /\ At(y, this) < At(y, this + 1)
             THEN Append(indices, this)
             ELSE indices)

find_indices_of_extrema_adjacent(y) ==
    find_indices_of_extrema_adjacent_loop(y, 1, <<>>)

\* The index last is never advanced: every element is compared with y[0].
RECURSIVE find_indices_of_extrema_stale_loop(_, _, _, _, _)
find_indices_of_extrema_stale_loop(y, last, this, next, indices) ==
    IF ~(next < Len(y)) THEN indices
    ELSE IF At(y, this) = At(y, next)
         THEN find_indices_of_extrema_stale_loop(y, last, this, next + 1, indices)
    ELSE find_indices_of_extrema_stale_loop(
             y, last, next, next + 1,
             IF At(y, this) > At(y, last)
             THEN IF At(y, this) > At(y, next)
                  THEN Append(indices, this) ELSE indices
             ELSE IF At(y, this) < At(y, last)
                  THEN IF At(y, this) < At(y, next)
                       THEN Append(indices, this) ELSE indices
             ELSE indices)

find_indices_of_extrema_stale(y) ==
    find_indices_of_extrema_stale_loop(y, 0, 1, 2, <<>>)

\* Equal elements not skipped and the comparison with the next element not
\* strict.
RECURSIVE find_indices_of_extrema_nonstrict_loop(_, _, _)
find_indices_of_extrema_nonstrict_loop(y, this, indices) ==
    IF ~(this + 1 < Len(y)) THEN indices
    ELSE find_indices_of_extrema_nonstrict_loop(
             y, this + 1,
             IF \/ At(y, this) > At(y, this - 1) /\ At(y, this) >= At(y, this + 1)
                \/ At(y, this) < At(y, this - 1) /\ At(y, this) <= At(y, this + 1)
             THEN Append(indices, this)
             ELSE indices)

find_indices_of_extrema_nonstrict(y) ==
    find_indices_of_extrema_nonstrict_loop(y, 1, <<>>)

\* One pass through the body of the while loop of find_indices_of_extrema,
\* from the three rolling indices and the list in st to their new values.
find_indices_of_extrema_body(y, st) ==
    IF At(y, st.this) = At(y, st.next)
    THEN [st EXCEPT !.next = st.next + 1]
    ELSE [last |-> st.this,
          this |-> st.next,
          next |-> st.next + 1,
          indices |->
              IF At(y, st.this) > At(y, st.last)
              THEN IF At(y, st.this) > At(y, st.next)
                   THEN Append(st.indices, st.this) ELSE st.indices
              ELSE IF At(y, st.this) < At(y, st.last)
                   THEN IF At(y, st.this) < At(y, st.next)
                        THEN Append(st.indices, st.this) ELSE st.indices
              ELSE st.indices]

\* The while loop, from st and for at most n passes: it ends when
\* next < len(y) fails; n passes are the first half of them followed by the
\* rest.
RECURSIVE find_indices_of_extrema_loop(_, _, _)
find_indices_of_extrema_loop(y, st, n) ==
    IF ~(st.next < Len(y)) THEN st
    ELSE IF n = 1 THEN find_indices_of_extrema_body(y, st)
    ELSE find_indices_of_extrema_loop(
             y, find_indices_of_extrema_loop(y, st, n \div 2), n - n \div 2)

\* next grows by one in every pass, so len(y) passes end the loop.
find_indices_of_extrema(y) ==
    find_indices_of_extrema_loop(
        y, [last |-> 0, this |-> 1, next |-> 2, indices |-> <<>>],
        Len(y)).indices

\* y[a:b], a Python slice of a sequence.
Slice(y, a, b) == SubSeq(y, a + 1, b)

SetMin(S) == CHOOSE m \in S : \A s \in S : m <= s

SetMax(S) == CHOOSE m \in S : \A s \in S : m >= s

Elements(s) == {s[k] : k \in 1..Len(s)}

HasDuplicates(x) == \E i, j \in 1..Len(x) : i < j /\ x[i] = x[j]

\* Number of points below which safe_interp1d falls back to linear.
safe_interp1d_min_points == 4

\* Fewest points from which scipy's interp1d builds a linear interpolation:
\* one or two, depending on the version of the library.
LinearMinvals == {1, 2}

\* scipy.interpolate.interp1d(x, y, kind=kind, bounds_error=True), a library
\* routine: the interpolation object with its knots x and their values y, or
\* a ValueError for fewer knots than the kind needs (a cubic spline needs its
\* order + 1 = 4) and for a cubic spline through two knots with the same x.
interp1d(x, y, kind, minval_linear) ==
    LET minval == IF kind = "linear" THEN minval_linear ELSE 3 + 1
    IN  [raised |-> IF /\ Len(x) >= minval
                       /\ (kind = "linear" \/ ~HasDuplicates(x))
                    THEN "none" ELSE "ValueError",
         kind |-> kind, x |-> x, y |-> y]

\* safe_interp1d: the interpolation and whether the warning was issued.
safe_interp1d(x, y, kind, minval_linear) ==
    IF Len(x) < safe_interp1d_min_points
    THEN [warned |-> TRUE, inter |-> interp1d(x, y, "linear", minval_linear)]
    ELSE [warned |-> FALSE, inter |-> interp1d(x, y, kind, minval_linear)]

\* The slices [a, b] (first and last index) that interpolate_and_invert
\* takes for a non-empty list of extrema: y[0 : extrema[0] + 1],
\* y[extrema[i - 1] : extrema[i] + 1] for i = 1, ..., and y[extrema[-1] :].
interpolate_and_invert_slices(n_x, extrema) ==
    [k \in 1..(Len(extrema) + 1) |->
        <<IF k = 1 THEN 0 ELSE extrema[k - 1],
          IF k = Len(extrema) + 1 THEN n_x - 1 ELSE extrema[k]>>]

\* The calls of safe_interp1d, one slice after the other, up to the first
\* that raises.
RECURSIVE interpolate_and_invert_loop(_, _, _, _, _, _, _)
interpolate_and_invert_loop(x, y, kind, minval_linear, slices, k, st) ==
    IF k > Len(slices) \/ st.raised # "none" THEN st
    ELSE LET a == slices[k][1]
             b == slices[k][2]
             s == safe_interp1d(Slice(y, a, b + 1), Slice(x, a, b + 1),
                                kind, minval_linear)
         IN  interpolate_and_invert_loop(
                 x, y, kind, minval_linear, slices, k + 1,
                 [raised |-> s.inter.raised,
                  interpolations |->
                      IF s.inter.raised = "none"
                      THEN Append(st.interpolations, s.inter)
                      ELSE st.interpolations,
                  warned |-> Append(st.warned, s.warned)])

\* The shape check comes after the search for extrema.
\* interpolate_and_invert after its shape check: the search for extrema and
\* the interpolations of the pieces.
interpolate_and_invert_pieces(x, y, kind, minval_linear) ==
    LET n_x == Len(x)
        extrema == find_indices_of_extrema(y)
        slices == IF Len(extrema) = 0 THEN << <<0, n_x - 1>> >>
                  ELSE interpolate_and_invert_slices(n_x, extrema)
        st == IF Len(extrema) = 0
              THEN LET inter == interp1d(y, x, kind, minval_linear)
                   IN  [raised |-> inter.raised,
                        interpolations |->
                            IF inter.raised = "none" THEN <<inter>>
                            ELSE <<>>,
                        warned |-> <<FALSE>>]
              ELSE interpolate_and_invert_loop(
                       x, y, kind, minval_linear, slices, 1,
                       [raised |-> "none", interpolations |-> <<>>,
                        warned |-> <<>>])
    IN  [raised |-> st.raised,
         ret |-> IF st.raised = "none" THEN st.interpolations ELSE <<>>,
         locals |-> [n_x |-> n_x, extrema |-> extrema,
                     slices |-> slices, warned |-> st.warned]]

\* The shapes are compared after the search for extrema.
interpolate_and_invert_late_check(x, y, kind, minval_linear) ==
    IF Len(y) # Len(x)
    THEN [raised |-> "ValueError", ret |-> <<>>,
          locals |-> [n_x |-> Len(x), extrema |-> find_indices_of_extrema(y),
                      slices |-> <<>>, warned |-> <<>>]]
    ELSE interpolate_and_invert_pieces(x, y, kind, minval_linear)

\* interpolate_and_invert: the exception raised, the list of interpolations
\* of the PiecewiseInterpolation returned, and n_x, the extrema, the slices
\* and the warnings of the calls of safe_interp1d.
interpolate_and_invert(x, y, kind, minval_linear) ==
    IF Len(y) # Len(x)
    THEN [raised |-> "ValueError", ret |-> <<>>, locals |-> NoLocals]
    ELSE interpolate_and_invert_pieces(x, y, kind, minval_linear)

\* inter(x_new) for an interpolation built with bounds_error=True: a
\* ValueError below the smallest and above the largest knot; otherwise the
\* value, given by the values lo and hi of the knots next to x_new between
\* which it is interpolated (lo = hi is the value of a knot that x_new hits).
interp1d_call(inter, x_new) ==
    IF x_new < SetMin(Elements(inter.x)) \/ x_new > SetMax(Elements(inter.x))
    THEN [raised |-> "ValueError", value |-> [lo |-> 0, hi |-> 0]]
    ELSE LET below == SetMax({v \in Elements(inter.x) : v <= x_new})
             above == SetMin({v \in Elements(inter.x) : v >= x_new})
             near == {inter.y[j] : j \in {i \in 1..Len(inter.x) :
                                             inter.x[i] \in {below, above}}}
         IN  [raised |-> "none",
              value |-> [lo |-> SetMin(near), hi |-> SetMax(near)]]

\* The loop ends with the first interpolation that raises.
RECURSIVE PiecewiseInterpolation_call_until_error_loop(_, _, _, _)
PiecewiseInterpolation_call_until_error_loop(interpolations, x, k, y) ==
    IF k > Len(interpolations) THEN y
    ELSE LET r == interp1d_call(interpolations[k], x)
         IN  IF r.raised = "ValueError" THEN y
             ELSE PiecewiseInterpolation_call_until_error_loop(
                      interpolations, x, k + 1, Append(y, r.value))

PiecewiseInterpolation_call_until_error(interpolations, x) ==
    PiecewiseInterpolation_call_until_error_loop(interpolations, x, 1, <<>>)

\* The loop of PiecewiseInterpolation.__call__ over self.interpolations.
RECURSIVE PiecewiseInterpolation_call_loop(_, _, _, _)
PiecewiseInterpolation_call_loop(interpolations, x, k, y) ==
    IF k > Len(interpolations) THEN y
    ELSE LET r == interp1d_call(interpolations[k], x)
         IN  PiecewiseInterpolation_call_loop(
                 interpolations, x, k + 1,
                 IF r.raised = "ValueError" THEN y ELSE Append(y, r.value))

\* PiecewiseInterpolation.__call__(x) of an object with these interpolations.
PiecewiseInterpolation_call(interpolations, x) ==
    PiecewiseInterpolation_call_loop(interpolations, x, 1, <<>>)

(* ------------- test_inversion_by_piecewise_interpolation.py ------------- *)

\* np.linspace(-3.0, 3.0, 501): the number of points and the limit.
QuarticPoints == 501

QuarticLimit == 3

QuarticHalf == (QuarticPoints - 1) \div 2

\* The grid in units of QuarticLimit / QuarticHalf: x = -250, ..., 0, ..., 250.
quartic_x == [k \in 1..QuarticPoints |-> k - 1 - QuarticHalf]

\* f(x) = x^2 (x^2 - 1) at the grid point u, in units of
\* 16 QuarticLimit^2 / QuarticHalf^4 and rounded down:
\* u^2 (QuarticLimit^2 u^2 - QuarticHalf^2) / 16, computed in two parts that
\* fit the integers of the model checker.
quartic_f(u) ==
    LET u2 == u * u
        b == QuarticLimit * QuarticLimit * u2 - QuarticHalf * QuarticHalf
    IN  (u2 \div 16) * b + ((u2 % 16) * b) \div 16

quartic_y == [k \in 1..QuarticPoints |-> quartic_f(quartic_x[k])]

\* A value q of f in the same units, rounded down.
quartic_value(q) ==
    LET s == (QuarticHalf * QuarticHalf) \div 4
        t == s * s
        d == QuarticLimit * QuarticLimit
    IN  q * (t \div d) + (q * (t % d)) \div d

\* The queries inverse_f(12.0), inverse_f(0.0) and inverse_f(-1.0).
quartic_queries == {quartic_value(12), quartic_value(0), quartic_value(-1)}

(* ------------------------------ the calls ------------------------------- *)

InitIntervals ==
    /\ pc = "call"
    /\ ret = <<>>
    /\ raised = "none"
    /\ locals = NoLocals
    /\ \/ /\ op = "intersection_of_two_intervals"
          /\ args \in [interval_1 : Pairs, interval_2 : Pairs]
       \/ /\ op = "intersection_of_interval_with_list_of_intervals"
          /\ \E n \in 0..(MaxListTotal - 1) :
                args \in [interval_1 : ListPairs,
                          list_of_intervals : [1..n -> ListPairs]]
       \/ /\ op = "intersection"
          /\ \E n1 \in 0..MaxListTotal : \E n2 \in 0..(MaxListTotal - n1) :
                args \in [list_of_intervals_1 : [1..n1 -> ListPairs],
                          list_of_intervals_2 : [1..n2 -> ListPairs]]
       \/ /\ op = "intersection"
          /\ \E n \in 0..MaxSelfLen : \E L \in [1..n -> SortedPairs] :
                args = [list_of_intervals_1 |-> L, list_of_intervals_2 |-> L]

Call_intersection_of_two_intervals ==
    /\ pc = "call"
    /\ op = "intersection_of_two_intervals"
    /\ ret' = intersection_of_two_intervals(args.interval_1, args.interval_2)
    /\ pc' = "done"
    /\ UNCHANGED <<op, args, raised, locals>>

Call_intersection_of_interval_with_list_of_intervals ==
    /\ pc = "call"
    /\ op = "intersection_of_interval_with_list_of_intervals"
    /\ ret' = intersection_of_interval_with_list_of_intervals(
                  args.interval_1, args.list_of_intervals)
    /\ pc' = "done"
    /\ UNCHANGED <<op, args, raised, locals>>

Call_intersection ==
    /\ pc = "call"
    /\ op = "intersection"
    /\ ret' = intersection(args.list_of_intervals_1, args.list_of_intervals_2)
    /\ pc' = "done"
    /\ UNCHANGED <<op, args, raised, locals>>

NextIntervals ==
    \/ Call_intersection_of_two_intervals
    \/ Call_intersection_of_interval_with_list_of_intervals
    \/ Call_intersection

SpecIntervals == InitIntervals /\ [][NextIntervals]_vars

\* The sample points x of invert_grid: an ascending or a descending grid.
GridsX(n) == {[i \in 1..n |-> 10 * i], [i \in 1..n |-> 10 * (n + 1 - i)]}

InitInversion ==
    /\ pc = "call"
    /\ ret = <<>>
    /\ raised = "none"
    /\ locals = NoLocals
    /\ \/ /\ op = "invert_grid"
          /\ \E n \in 0..MaxLen : \E m \in {n - 1, n, n + 1} \cap (0..MaxLen) :
                args \in [x : GridsX(n),
                          fx : [1..m -> FxVals],
                          y : Targets,
                          atol : AtolVals,
                          return_intervals : BOOLEAN]
       \/ /\ op \in {"find_delta_brute_force",
                     "AnalyzingPower.find_delta_brute_force"}
          /\ \E n \in 0..MaxLen :
                args \in [value : Targets,
                          delta_values : [1..2 -> Slots],
                          n_delta : {n},
                          atol : AtolVals,
                          return_intervals : BOOLEAN,
                          ana_pow : [1..n -> FxVals]]

Call_invert_grid ==
    /\ pc = "call"
    /\ op = "invert_grid"
    /\ LET r == invert_grid(args.x, args.fx, args.y, args.atol,
                            args.return_intervals)
       IN  /\ ret' = r.ret
           /\ raised' = r.raised
           /\ locals' = r.locals
    /\ pc' = "done"
    /\ UNCHANGED <<op, args>>

Call_find_delta_brute_force ==
    /\ pc = "call"
    /\ op = "find_delta_brute_force"
    /\ LET r == find_delta_brute_force(args.value, args.delta_values,
                                       args.n_delta, args.atol,
                                       args.return_intervals, args.ana_pow)
       IN  /\ ret' = r.ret
           /\ raised' = r.raised
           /\ locals' = r.locals
    /\ pc' = "done"
    /\ UNCHANGED <<op, args>>

Call_AnalyzingPower_find_delta_brute_force ==
    /\ pc = "call"
    /\ op = "AnalyzingPower.find_delta_brute_force"
    /\ LET r == AnalyzingPower_find_delta_brute_force(
                    args.value, args.delta_values, args.n_delta, args.atol,
                    args.return_intervals, args.ana_pow)
       IN  /\ ret' = r.ret
           /\ raised' = r.raised
           /\ locals' = r.locals
    /\ pc' = "done"
    /\ UNCHANGED <<op, args>>

NextInversion ==
    \/ Call_invert_grid
    \/ Call_find_delta_brute_force
    \/ Call_AnalyzingPower_find_delta_brute_force

SpecInversion == InitInversion /\ [][NextInversion]_vars

\* The sequences of observables with one non-finite entry.
OneNonFinite(n) ==
    {[finite EXCEPT ![k] = v] :
        finite \in [1..n -> FxVals], k \in 1..n, v \in NonFinite}

InitNonFinite ==
    /\ pc = "call"
    /\ ret = <<>>
    /\ raised = "none"
    /\ locals = NoLocals
    /\ op \in {"find_delta_brute_force", "AnalyzingPower.find_delta_brute_force"}
    /\ \E n \in 1..MaxLen :
          args \in [value : Targets,
                    delta_values : {<<Variable, Number(5)>>},
                    n_delta : {n},
                    atol : AtolVals,
                    return_intervals : BOOLEAN,
                    ana_pow : OneNonFinite(n)]

NextNonFinite ==
    \/ Call_find_delta_brute_force
    \/ Call_AnalyzingPower_find_delta_brute_force

SpecNonFinite == InitNonFinite /\ [][NextNonFinite]_vars

\* The caller's pair is sorted in place.
np_sort_argument_in_place(interval) == np_sort(interval)

\* What the caller's object is after np.sort(interval): np.sort returns a
\* sorted copy, and the routine binds its own name to that copy.
np_sort_argument(interval) == interval

\* What the caller's target is after invert_grid: y = [y, y] and
\* y = [y[1], y[0]] bind the name y of the routine to a new list.
invert_grid_argument_y(y) == y

\* The arguments of a routine after a call that was given the arguments a:
\* the only statements that touch an argument are the two np.sort of
\* intersection_of_two_intervals, which the list routines run for every pair
\* of entries, and the assignments to y of invert_grid; find_delta_brute_force
\* builds a new list of cascade steps and new Transition objects from those
\* of the analyzing power.
arguments_after(name, a) ==
    IF name = "intersection_of_two_intervals"
    THEN [interval_1 |-> np_sort_argument(a.interval_1),
          interval_2 |-> np_sort_argument(a.interval_2)]
    ELSE IF name = "intersection_of_interval_with_list_of_intervals"
    THEN [interval_1 |-> IF Len(a.list_of_intervals) > 0
                         THEN np_sort_argument(a.interval_1)
                         ELSE a.interval_1,
          list_of_intervals |->
              [k \in 1..Len(a.list_of_intervals) |->
                  np_sort_argument(a.list_of_intervals[k])]]
    ELSE IF name = "intersection"
    THEN [list_of_intervals_1 |->
              [k \in 1..Len(a.list_of_intervals_1) |->
                  IF Len(a.list_of_intervals_2) > 0
                  THEN np_sort_argument(a.list_of_intervals_1[k])
                  ELSE a.list_of_intervals_1[k]],
          list_of_intervals_2 |->
              [k \in 1..Len(a.list_of_intervals_2) |->
                  IF Len(a.list_of_intervals_1) > 0
                  THEN np_sort_argument(a.list_of_intervals_2[k])
                  ELSE a.list_of_intervals_2[k]]]
    ELSE IF name = "invert_grid"
    THEN IF Len(a.fx) # Len(a.x) THEN a
         ELSE [a EXCEPT !.y = invert_grid_argument_y(a.y)]
    ELSE a

\* What a routine raises and returns for the arguments a.
result_of(name, a) ==
    IF name = "intersection_of_two_intervals"
    THEN [raised |-> "none",
          ret |-> intersection_of_two_intervals(a.interval_1, a.interval_2)]
    ELSE IF name = "intersection_of_interval_with_list_of_intervals"
    THEN [raised |-> "none",
          ret |-> intersection_of_interval_with_list_of_intervals(
                      a.interval_1, a.list_of_intervals)]
    ELSE IF name = "intersection"
    THEN [raised |-> "none",
          ret |-> intersection(a.list_of_intervals_1, a.list_of_intervals_2)]
    ELSE IF name = "invert_grid"
    THEN LET r == invert_grid(a.x, a.fx, a.y, a.atol, a.return_intervals)
         IN  [raised |-> r.raised, ret |-> r.ret]
    ELSE IF name = "find_indices_of_extrema"
    THEN [raised |-> "none", ret |-> find_indices_of_extrema(a.y)]
    ELSE LET r == IF name = "find_delta_brute_force"
                  THEN find_delta_brute_force(
                           a.value, a.delta_values, a.n_delta, a.atol,
                           a.return_intervals, a.ana_pow)
                  ELSE AnalyzingPower_find_delta_brute_force(
                           a.value, a.delta_values, a.n_delta, a.atol,
                           a.return_intervals, a.ana_pow)
         IN  [raised |-> r.raised, ret |-> r.ret]

\* A caller that calls a routine and then calls it once more with the same
\* objects; cascade_steps are the mixing ratios of the cascade steps of the
\* analyzing power that find_delta_brute_force is given.
InitRepeated ==
    /\ pc = "call"
    /\ ret = <<>>
    /\ raised = "none"
    /\ locals = NoLocals
    /\ \/ /\ op = "intersection_of_two_intervals"
          /\ args \in [interval_1 : Pairs, interval_2 : Pairs]
       \/ /\ op = "intersection_of_interval_with_list_of_intervals"
          /\ \E n \in 0..(MaxListTotal - 2) :
                args \in [interval_1 : ListPairs,
                          list_of_intervals : [1..n -> ListPairs]]
       \/ /\ op = "intersection"
          /\ \E n1 \in 0..(MaxListTotal - 2) :
                \E n2 \in 0..(MaxListTotal - 2 - n1) :
                    args \in [list_of_intervals_1 : [1..n1 -> ListPairs],
                              list_of_intervals_2 : [1..n2 -> ListPairs]]
       \/ /\ op = "invert_grid"
          /\ \E n \in 0..MaxLen : \E m \in {n - 1, n} \cap (0..MaxLen) :
                args \in [x : GridsX(n),
                          fx : [1..m -> FxVals],
                          y : Targets,
                          atol : {0},
                          return_intervals : BOOLEAN]
       \/ /\ op = "find_indices_of_extrema"
          /\ \E n \in 0..MaxLen : args \in [y : [1..n -> 0..MaxY]]
       \/ /\ op \in {"find_delta_brute_force",
                     "AnalyzingPower.find_delta_brute_force"}
          /\ \E n \in 0..MaxLen :
                args \in [value : Targets,
                          delta_values : {<<Variable, Derived>>},
                          n_delta : {n},
                          atol : {0},
                          return_intervals : BOOLEAN,
                          ana_pow : [1..n -> FxVals],
                          cascade_steps : {<<Number(0), Number(1)>>}]

\* The first call: args becomes what the caller's objects are after it.
Call_first ==
    /\ pc = "call"
    /\ LET r == result_of(op, args)
       IN  /\ ret' = r.ret
           /\ raised' = r.raised
           /\ locals' = [given |-> args, first |-> r]
    /\ args' = arguments_after(op, args)
    /\ pc' = "done"
    /\ UNCHANGED op

\* The same call once more, with the objects as the first call left them.
Call_again ==
    /\ pc = "done"
    /\ LET r == result_of(op, args)
       IN  /\ ret' = r.ret
           /\ raised' = r.raised
    /\ args' = arguments_after(op, args)
    /\ pc' = "again"
    /\ UNCHANGED <<op, locals>>

NextRepeated ==
    \/ Call_first
    \/ Call_again

SpecRepeated == InitRepeated /\ [][NextRepeated]_vars

\* The classification of the samples shared out among workers: owner[i] is
\* the worker that evaluates sample i and writes slot i of the mask.
NumWorkers == 2

Workers == 1..NumWorkers

\* Slot i of the mask as the routine computes it for sample i.
classify(name, a, i) ==
    IF name = "invert_grid"
    THEN inequality(a.fx, invert_grid_range(a.y), a.atol)[i]
    ELSE find_delta_is_match(a.ana_pow[i], a.value, a.atol)

\* The coalescing loop of the routine, run once over the complete mask.
coalesce(name, a, mask) ==
    IF name = "invert_grid"
    THEN invert_grid_intervals(a.x, mask)
    ELSE find_delta_intervals(find_delta_deltas(a.n_delta), mask)

InitParallel ==
    /\ pc = "classify"
    /\ ret = <<>>
    /\ raised = "none"
    /\ \E n \in 0..MaxSlots :
          /\ locals = [mask |-> [i \in 1..n |-> FALSE], written |-> {}]
          /\ \/ /\ op = "invert_grid"
                /\ args \in [x : GridsX(n),
                             fx : [1..n -> 0..1],
                             y : {<<1>>, <<1, 0>>},
                             atol : {0},
                             return_intervals : {TRUE},
                             owner : [1..n -> Workers]]
             \/ /\ op = "find_delta_brute_force"
                /\ args \in [value : {<<1>>, <<1, 2>>},
                             delta_values : {<<Variable, Number(5)>>},
                             n_delta : {n},
                             atol : {1},
                             return_intervals : {TRUE},
                             ana_pow : [1..n -> 0..1],
                             owner : [1..n -> Workers]]

\* Worker w evaluates one of its samples and writes the slot of that sample.
Worker_classify(w) ==
    /\ pc = "classify"
    /\ \E i \in 1..Len(locals.mask) :
          /\ args.owner[i] = w
          /\ i \notin locals.written
          /\ locals' = [mask |-> [locals.mask EXCEPT ![i] = classify(op, args, i)],
                        written |-> locals.written \cup {i}]
    /\ UNCHANGED <<op, args, pc, ret, raised>>

\* All slots are written: the intervals are built from the mask.
Coalesce ==
    /\ pc = "classify"
    /\ locals.written = 1..Len(locals.mask)
    /\ ret' = coalesce(op, args, locals.mask)
    /\ pc' = "done"
    /\ UNCHANGED <<op, args, raised, locals>>

NextParallel ==
    \/ \E w \in Workers : Worker_classify(w)
    \/ Coalesce

SpecParallel == InitParallel /\ [][NextParallel]_vars

InitExtrema ==
    /\ pc = "call"
    /\ ret = <<>>
    /\ raised = "none"
    /\ locals = NoLocals
    /\ op = "find_indices_of_extrema"
    /\ \E n \in 0..MaxLenY : args \in [y : [1..n -> 0..MaxY]]

Call_find_indices_of_extrema ==
    /\ pc = "call"
    /\ op = "find_indices_of_extrema"
    /\ ret' = find_indices_of_extrema(args.y)
    /\ pc' = "done"
    /\ UNCHANGED <<op, args, raised, locals>>

NextExtrema == Call_find_indices_of_extrema

SpecExtrema == InitExtrema /\ [][NextExtrema]_vars

\* The sample points of a curve of n points.
CurveX(n) == [i \in 1..n |-> 10 * (i - 1)]

Kinds == {"linear", "cubic"}

\* The values for which a PiecewiseInterpolation is evaluated.
QueryVals == ((0 - 1)..(MaxCurveY + 1)) \cup quartic_queries

InitPiecewise ==
    /\ pc = "call"
    /\ ret = <<>>
    /\ raised = "none"
    /\ locals = NoLocals
    /\ op = "interpolate_and_invert"
    /\ \/ \E n \in 0..MaxCurveLen :
              \E m \in {n - 1, n, n + 1} \cap (0..MaxCurveLen) :
                  args \in [x : {CurveX(n)},
                            y : [1..m -> 0..MaxCurveY],
                            kind : Kinds]
       \/ args = [x |-> quartic_x, y |-> quartic_y, kind |-> "cubic"]

Call_interpolate_and_invert ==
    /\ pc = "call"
    /\ op = "interpolate_and_invert"
    /\ \E minval_linear \in LinearMinvals :
          LET r == interpolate_and_invert(args.x, args.y, args.kind,
                                          minval_linear)
          IN  /\ ret' = r.ret
              /\ raised' = r.raised
              /\ locals' = r.locals
    /\ pc' = "done"
    /\ UNCHANGED <<op, args>>

\* inverse(x) for the PiecewiseInterpolation that interpolate_and_invert
\* returned.
Call_PiecewiseInterpolation_call ==
    /\ pc = "done"
    /\ op = "interpolate_and_invert"
    /\ raised = "none"
    /\ \E x \in QueryVals :
          /\ op' = "PiecewiseInterpolation.__call__"
          /\ args' = [self |-> [interpolations |-> ret], x |-> x]
          /\ ret' = PiecewiseInterpolation_call(ret, x)
    /\ UNCHANGED <<pc, raised, locals>>

NextPiecewise ==
    \/ Call_interpolate_and_invert
    \/ Call_PiecewiseInterpolation_call

SpecPiecewise == InitPiecewise /\ [][NextPiecewise]_vars

\* The routines that invert a curve, on a grid and by interpolation.
InitInversionRoutines == InitInversion \/ InitPiecewise

NextInversionRoutines ==
    \/ Call_invert_grid
    \/ Call_find_delta_brute_force
    \/ Call_AnalyzingPower_find_delta_brute_force
    \/ Call_interpolate_and_invert
    \/ Call_PiecewiseInterpolation_call

SpecInversionRoutines == InitInversionRoutines /\ [][NextInversionRoutines]_vars

(* ----------------------------- properties ------------------------------- *)

Min2(p) == IF p[1] <= p[2] THEN p[1] ELSE p[2]

Max2(p) == IF p[1] <= p[2] THEN p[2] ELSE p[1]

Returned(name) == pc = "done" /\ op = name

\* C1: intersection_of_two_intervals(a, b), the limits of a and b given in any
\* order, returns [max of the two lower limits, min of the two upper limits]
\* when that lower limit is <= that upper limit, and the empty list otherwise;
\* two intervals with exactly one common point p yield [p, p].
C1_TwoIntervals ==
    Returned("intersection_of_two_intervals") =>
        LET a  == args.interval_1
            b  == args.interval_2
            lo == IF Min2(a) >= Min2(b) THEN Min2(a) ELSE Min2(b)
            hi == IF Max2(a) <= Max2(b) THEN Max2(a) ELSE Max2(b)
        IN  /\ lo <= hi => ret = <<lo, hi>>
            /\ lo > hi => ret = <<>>
            /\ lo = hi => ret = <<lo, lo>>

\* Two intervals given with their limits reversed that share exactly the point 1.
C1_Witness ==
    /\ Returned("intersection_of_two_intervals")
    /\ args.interval_1 = <<1, 0>>
    /\ args.interval_2 = <<2, 1>>
    /\ ret = <<1, 1>>

\* The non-empty entries of a sequence of pairwise results, in order.
NonEmpty(results) == SelectSeq(results, LAMBDA r : Len(r) > 0)

\* The pairwise results with a over L1 (outer) and b over L2 (inner).
Pairwise(L1, L2) ==
    [k \in 1..(Len(L1) * Len(L2)) |->
        intersection_of_two_intervals(L1[((k - 1) \div Len(L2)) + 1],
                                      L2[((k - 1) % Len(L2)) + 1])]

\* C2: intersection(L1, L2) is the sequence of the non-empty results of
\* intersection_of_two_intervals(a, b), a over L1 in order (outer) and b over
\* L2 in order (inner), nothing merged or reordered; and
\* intersection_of_interval_with_list_of_intervals(a, L) is that sequence for
\* the single interval a.
C2_ListOrder ==
    /\ Returned("intersection") =>
           ret = NonEmpty(Pairwise(args.list_of_intervals_1,
                                   args.list_of_intervals_2))
    /\ Returned("intersection_of_interval_with_list_of_intervals") =>
           ret = NonEmpty(Pairwise(<<args.interval_1>>, args.list_of_intervals))

\* Two intervals in each list, one pairwise result empty, and a result in
\* which the order of both loops shows.
C2_Witness ==
    /\ Returned("intersection")
    /\ args.list_of_intervals_1 = << <<0, 0>>, <<0, 1>> >>
    /\ args.list_of_intervals_2 = << <<1, 1>>, <<0, 0>> >>
    /\ ret = << <<0, 0>>, <<1, 1>>, <<0, 0>> >>

Indices(n) == [k \in 1..n |-> k]

\* The limits of a target as the matching contract reads them: a scalar y0
\* is the range [y0, y0], the limits of a range are taken in ascending order.
TargetLo(y) == IF Len(y) = 1 THEN y[1] ELSE Min2(y)

TargetHi(y) == IF Len(y) = 1 THEN y[1] ELSE Max2(y)

\* y_lo - atol <= v <= y_hi + atol
InBand(v, y, atol) == TargetLo(y) - atol <= v /\ v <= TargetHi(y) + atol

BandMask(values, y, atol) ==
    [k \in 1..Len(values) |-> InBand(values[k], y, atol)]

ReturnedGrid == Returned("invert_grid") /\ raised = "none"

\* C3: without return_intervals invert_grid returns the subsequence of x at
\* the indices i with y_lo - atol <= fx[i] <= y_hi + atol, in index order (a
\* scalar target y0 is y_lo = y_hi = y0), and as many values as there are
\* samples inside the band.
C3_GridValues ==
    (ReturnedGrid /\ ~args.return_intervals) =>
        LET inside == SelectSeq(Indices(Len(args.x)),
                                LAMBDA k : InBand(args.fx[k], args.y, args.atol))
        IN  /\ ret = [j \in 1..Len(inside) |-> args.x[inside[j]]]
            /\ Len(ret) = Cardinality({k \in 1..Len(args.fx) :
                                          InBand(args.fx[k], args.y, args.atol)})

\* A scalar target with one sample on the edge of the band, one outside and
\* one at the target.
C3_Witness ==
    /\ ReturnedGrid
    /\ ~args.return_intervals
    /\ args.y = <<0>>
    /\ args.atol = 1
    /\ args.x = <<10, 20, 30>>
    /\ args.fx = <<1, 2, 0>>
    /\ ret = <<10, 30>>

\* The first indices of the maximal runs of TRUE of a mask, in order.
RunStarts(mask) ==
    SelectSeq(Indices(Len(mask)),
              LAMBDA s : mask[s] /\ (s = 1 \/ ~mask[s - 1]))

\* The last index of the maximal run that starts at s.
RunEnd(mask, s) ==
    CHOOSE e \in s..Len(mask) :
        /\ \A k \in s..e : mask[k]
        /\ e = Len(mask) \/ ~mask[e + 1]

\* One interval [samples[s], samples[e]] per maximal run s..e, left to right.
RunIntervals(samples, mask) ==
    LET starts == RunStarts(mask)
    IN  [j \in 1..Len(starts) |->
            <<samples[starts[j]], samples[RunEnd(mask, starts[j])]>>]

\* C4: with return_intervals invert_grid returns one interval per maximal run
\* of consecutive matching samples, left to right: [x[s], x[e]] for the run
\* s..e, the degenerate [x[i], x[i]] for a run of length 1; the number of
\* intervals is the number of maximal runs.
C4_GridIntervals ==
    (ReturnedGrid /\ args.return_intervals) =>
        LET mask == BandMask(args.fx, args.y, args.atol)
        IN  /\ ret = RunIntervals(args.x, mask)
            /\ Len(ret) = Cardinality({s \in 1..Len(mask) :
                                          mask[s] /\ (s = 1 \/ ~mask[s - 1])})

\* A run of two samples that is closed by a sample outside the band.
C4_Witness ==
    /\ ReturnedGrid
    /\ args.return_intervals
    /\ args.y = <<0>>
    /\ args.atol = 1
    /\ args.x = <<10, 20, 30>>
    /\ args.fx = <<0, 1, 2>>
    /\ ret = << <<10, 20>> >>

FindDeltaOps == {"find_delta_brute_force", "AnalyzingPower.find_delta_brute_force"}

ReturnedFindDelta == pc = "done" /\ op \in FindDeltaOps

\* The final run of a mask whose last entry is TRUE starts at this index.
FinalRunStart(mask) ==
    CHOOSE s \in 1..Len(mask) :
        /\ \A k \in s..Len(mask) : mask[k]
        /\ s = 1 \/ ~mask[s - 1]

\* intervals holds the run that reaches the last sample exactly once, with
\* the last sample as its upper edge.
FinalRunClosed(samples, mask, intervals) ==
    (Len(mask) > 0 /\ mask[Len(mask)]) =>
        LET n == Len(mask)
            s == FinalRunStart(mask)
        IN  /\ Len(intervals) > 0
            /\ intervals[Len(intervals)] = <<samples[s], samples[n]>>
            /\ Cardinality({j \in 1..Len(intervals) :
                               intervals[j][1] = samples[s]}) = 1
            /\ Cardinality({j \in 1..Len(intervals) :
                               intervals[j][2] = samples[n]}) = 1
            /\ s = 1 => intervals = << <<samples[1], samples[n]>> >>
            /\ s = n => intervals[Len(intervals)] = <<samples[n], samples[n]>>

\* C5: in invert_grid and in find_delta_brute_force with return_intervals, a
\* run of matching samples that reaches the last sample index is reported
\* exactly once and its upper edge is the last sample; when every sample
\* matches the result is the single interval [first sample, last sample],
\* when only the last one matches the result ends with [last, last].
C5_FinalRun ==
    /\ (ReturnedGrid /\ args.return_intervals) =>
           FinalRunClosed(args.x, locals.inequality, ret)
    /\ (ReturnedFindDelta /\ args.return_intervals) =>
           FinalRunClosed(locals.deltas, locals.delta_matches, ret)

\* invert_grid: a first run, a sample outside the band, and a run of the last
\* sample alone.
C5_Witness ==
    /\ ReturnedGrid
    /\ args.return_intervals
    /\ args.x = <<10, 20, 30>>
    /\ locals.inequality = <<TRUE, FALSE, TRUE>>
    /\ ret = << <<10, 10>>, <<30, 30>> >>

\* C6: with return_intervals find_delta_brute_force yields, for every maximal
\* run of matching samples s..e (e the last index or not), the interval
\* [deltas[s], deltas[e]]: both edges are matching samples.
C6_FindDeltaIntervals ==
    (ReturnedFindDelta /\ args.return_intervals) =>
        ret = RunIntervals(locals.deltas, locals.delta_matches)

\* C7: for a scalar target y0 find_delta_brute_force marks a sample as
\* matching iff y0 - atol <= observable <= y0 + atol: its mask is the mask
\* invert_grid computes for the same observables, target and atol.
C7_FindDeltaMask ==
    (ReturnedFindDelta /\ IsScalar(args.value)) =>
        /\ locals.delta_matches =
               inequality(args.ana_pow, invert_grid_range(args.value), args.atol)
        /\ \A i \in 1..args.n_delta :
               locals.delta_matches[i] <=>
                   InBand(args.ana_pow[i], args.value, args.atol)

\* What the called routine returns for another target, all else equal.
FindDeltaFor(value) ==
    IF op = "find_delta_brute_force"
    THEN find_delta_brute_force(value, args.delta_values, args.n_delta,
                                args.atol, args.return_intervals, args.ana_pow)
    ELSE AnalyzingPower_find_delta_brute_force(
             value, args.delta_values, args.n_delta, args.atol,
             args.return_intervals, args.ana_pow)

\* C8: find_delta_brute_force given a target range with reversed limits
\* (hi, lo) returns the same match list, match mask and intervals as for the
\* sorted range (lo, hi).
C8_FindDeltaReversedRange ==
    (ReturnedFindDelta /\ ~IsScalar(args.value) /\ args.value[1] > args.value[2]) =>
        LET sorted == FindDeltaFor(<<args.value[2], args.value[1]>>)
        IN  /\ ret = sorted.ret
            /\ locals.delta_results = sorted.locals.delta_results
            /\ locals.delta_matches = sorted.locals.delta_matches

\* C9: for every sample delta and every cascade step j the evaluator is given
\* delta for a string entry of delta_values, delta_values[j](delta) for a
\* callable entry and delta_values[j] for a number, in the method and in the
\* function.
C9_SlotSubstitution ==
    ReturnedFindDelta =>
        \A i \in 1..args.n_delta : \A j \in 1..Len(args.delta_values) :
            LET slot   == args.delta_values[j]
                delta  == locals.deltas[i]
                passed == locals.evaluator_calls[i][j]
            IN  /\ slot = Variable => passed = Number(delta)
                /\ slot = Derived => passed = Number(-delta)
                /\ slot.kind = "float" => passed = slot

\* Some value before the (0-based) index i differs from y[i].
DiffersBefore(y, i) == \E k \in 0..(i - 1) : At(y, k) # At(y, i)

\* Some value after the index i differs from y[i].
DiffersAfter(y, i) == \E k \in (i + 1)..(Len(y) - 1) : At(y, k) # At(y, i)

\* The nearest value before i, and after i, that differs from y[i].
NearestBefore(y, i) ==
    At(y, CHOOSE k \in 0..(i - 1) :
              /\ At(y, k) # At(y, i)
              /\ \A m \in (k + 1)..(i - 1) : At(y, m) = At(y, i))

NearestAfter(y, i) ==
    At(y, CHOOSE k \in (i + 1)..(Len(y) - 1) :
              /\ At(y, k) # At(y, i)
              /\ \A m \in (i + 1)..(k - 1) : At(y, m) = At(y, i))

\* y[i] is strictly greater than both, or strictly less than both, of the
\* nearest differing values on its two sides.
TurnsAt(y, i) ==
    /\ 1 <= i /\ i <= Len(y) - 2
    /\ DiffersBefore(y, i)
    /\ DiffersAfter(y, i)
    /\ \/ At(y, i) > NearestBefore(y, i) /\ At(y, i) > NearestAfter(y, i)
       \/ At(y, i) < NearestBefore(y, i) /\ At(y, i) < NearestAfter(y, i)

\* The 0-based indices 0..n-1 in ascending order.
PyIndices(n) == [k \in 1..n |-> k - 1]

\* C10 as stated: find_indices_of_extrema(y) returns exactly the indices i,
\* 1 <= i <= N-2, with a differing value before and after i, at which y[i]
\* is strictly greater than both, or strictly less than both, of the nearest
\* differing values before and after i.
C10_EveryTurningIndex ==
    Returned("find_indices_of_extrema") =>
        ret = SelectSeq(PyIndices(Len(args.y)), LAMBDA i : TurnsAt(args.y, i))

\* C10, amended: of the indices of C10 exactly those are returned at which
\* the value changes (y[i-1] # y[i]), that is, the first index of every run
\* of equal values that is a turning point; the later indices of such a run
\* are not returned.
C10_FirstTurningIndex ==
    Returned("find_indices_of_extrema") =>
        ret = SelectSeq(PyIndices(Len(args.y)),
                        LAMBDA i : /\ TurnsAt(args.y, i)
                                   /\ At(args.y, i - 1) # At(args.y, i))

\* A maximum that is a run of two equal values: only its first index is
\* returned.
C10_Witness ==
    /\ Returned("find_indices_of_extrema")
    /\ args.y = <<0, 1, 1, 0, 2>>
    /\ ret = <<1, 3>>

\* No two consecutive values of y are equal.
NoEqualNeighbours(y) ==
    \A k \in 0..(Len(y) - 2) : At(y, k) # At(y, k + 1)

StrictlyMonotonic(y) ==
    \/ \A k \in 0..(Len(y) - 2) : At(y, k) < At(y, k + 1)
    \/ \A k \in 0..(Len(y) - 2) : At(y, k) > At(y, k + 1)

\* y[i-1] < y[i] > y[i+1] or y[i-1] > y[i] < y[i+1], for 0 < i < N-1.
AdjacentExtremum(y, i) ==
    /\ 0 < i /\ i < Len(y) - 1
    /\ \/ At(y, i - 1) < At(y, i) /\ At(y, i) > At(y, i + 1)
       \/ At(y, i - 1) > At(y, i) /\ At(y, i) < At(y, i + 1)

\* C11: for a sequence y without equal consecutive values,
\* find_indices_of_extrema(y) returns in strictly increasing order exactly the
\* indices i, 0 < i < N-1, with y[i-1] < y[i] > y[i+1] or
\* y[i-1] > y[i] < y[i+1]; 0 and N-1 are never returned; the result is empty
\* for a strictly monotonic sequence and for N < 3.
C11_AdjacentExtrema ==
    Returned("find_indices_of_extrema") =>
        LET y == args.y
            N == Len(args.y)
        IN  /\ NoEqualNeighbours(y) =>
                /\ ret = SelectSeq(PyIndices(N), LAMBDA i : AdjacentExtremum(y, i))
                /\ \A j \in 1..(Len(ret) - 1) : ret[j] < ret[j + 1]
            /\ \A j \in 1..Len(ret) : ret[j] # 0 /\ ret[j] # N - 1
            /\ StrictlyMonotonic(y) => ret = <<>>
            /\ N < 3 => ret = <<>>

\* A sequence of the shape of [0, 1, 2, 1, 0, 1, -2]: a maximum, a minimum
\* and a maximum next to the last element.
C11_Witness ==
    /\ Returned("find_indices_of_extrema")
    /\ args.y = <<0, 1, 2, 1, 0, 1, 0>>
    /\ ret = <<2, 4, 5>>

\* C12: if y[i] = y[i+1] = ... = y[N-1] for an index i < N-1, no index >= i
\* is returned, whatever the values before i are.
C12_ConstantTail ==
    Returned("find_indices_of_extrema") =>
        \A i \in 0..(Len(args.y) - 2) :
            (\A k \in i..(Len(args.y) - 1) : At(args.y, k) = At(args.y, i)) =>
                \A j \in 1..Len(ret) : ret[j] < i

\* A maximum followed by a constant tail that lies below it.
C12_Witness ==
    /\ Returned("find_indices_of_extrema")
    /\ args.y = <<0, 2, 1, 1>>
    /\ ret = <<1>>

\* C19: for a range target, invert_grid(x, fx, [a, b]) and
\* invert_grid(x, fx, [b, a]) end alike and return the same result, with and
\* without return_intervals.
C19_ReversedRange ==
    (Returned("invert_grid") /\ ~IsScalar(args.y)) =>
        LET r == invert_grid(args.x, args.fx, <<args.y[2], args.y[1]>>,
                             args.atol, args.return_intervals)
        IN  r.raised = raised /\ r.ret = ret

\* A range given as [hi, lo] that selects two of three samples.
C19_Witness ==
    /\ ReturnedGrid
    /\ ~args.return_intervals
    /\ args.y = <<2, 1>>
    /\ args.atol = 0
    /\ args.x = <<10, 20, 30>>
    /\ args.fx = <<0, 1, 2>>
    /\ ret = <<20, 30>>

\* Every entry of L is [lo, hi] with lo <= hi and no two entries share a point.
DisjointIntervals(L) ==
    /\ \A k \in 1..Len(L) : L[k][1] <= L[k][2]
    /\ \A j, k \in 1..Len(L) :
          j < k => (L[j][2] < L[k][1] \/ L[k][2] < L[j][1])

\* C20: for a list L of pairwise disjoint intervals [lo, hi], lo <= hi,
\* intersection(L, L) is L: the same entries in the same order and no other.
C20_SelfIntersection ==
    (/\ Returned("intersection")
     /\ args.list_of_intervals_1 = args.list_of_intervals_2
     /\ DisjointIntervals(args.list_of_intervals_1)) =>
        ret = args.list_of_intervals_1

\* Three disjoint intervals, two of them single points, not in ascending order.
C20_Witness ==
    /\ Returned("intersection")
    /\ args.list_of_intervals_1 = << <<2, 2>>, <<0, 1>>, <<3, 3>> >>
    /\ args.list_of_intervals_2 = args.list_of_intervals_1
    /\ ret = << <<2, 2>>, <<0, 1>>, <<3, 3>> >>

\* A curve of at least two points that passes the shape check and has no two
\* consecutive equal values of y.
ReturnedCurve ==
    /\ Returned("interpolate_and_invert")
    /\ Len(args.x) = Len(args.y)
    /\ Len(args.y) >= 2
    /\ NoEqualNeighbours(args.y)

\* C13: for a curve (x, y) that passes the shape check and has the K extrema
\* e1 < ... < eK, interpolate_and_invert builds K + 1 inverses, over the
\* index ranges [0, e1], [e1, e2], ..., [eK, N-1]: consecutive ranges share
\* one index, together they cover 0..N-1, and each has at least two points.
\* Stated for curves of at least two points without equal neighbours.
C13_SegmentsCoverCurve ==
    ReturnedCurve =>
        LET N == Len(args.y)
            extrema == find_indices_of_extrema(args.y)
            K == Len(find_indices_of_extrema(args.y))
        IN  /\ raised = "none"
            /\ Len(ret) = K + 1
            /\ Len(locals.slices) = K + 1
            /\ locals.slices[1][1] = 0
            /\ locals.slices[K + 1][2] = N - 1
            /\ \A k \in 1..K : /\ locals.slices[k][2] = extrema[k]
                               /\ locals.slices[k + 1][1] = extrema[k]
            /\ \A k \in 1..(K + 1) :
                  /\ locals.slices[k][2] - locals.slices[k][1] + 1 >= 2
                  /\ ret[k].x = [j \in 1..(locals.slices[k][2]
                                           - locals.slices[k][1] + 1) |->
                                    At(args.y, locals.slices[k][1] + j - 1)]
                  /\ ret[k].y = [j \in 1..(locals.slices[k][2]
                                           - locals.slices[k][1] + 1) |->
                                    At(args.x, locals.slices[k][1] + j - 1)]

\* C14: every segment of fewer than 4 points is interpolated linearly and
\* with a warning, whatever kind was requested, and every segment of 4 or
\* more points with the requested kind and without a warning; the single
\* segment of a curve without extrema is no exception.  Stated for curves of
\* at least two points without equal neighbours.
C14_SmallSegmentsLinear ==
    ReturnedCurve =>
        /\ raised = "none"
        /\ \A k \in 1..Len(ret) :
              IF Len(ret[k].x) < 4
              THEN ret[k].kind = "linear" /\ locals.warned[k]
              ELSE ret[k].kind = args.kind /\ ~locals.warned[k]

\* The indices of the interpolations whose closed range of knots holds y0.
Containing(interpolations, y0) ==
    SelectSeq(Indices(Len(interpolations)),
              LAMBDA k : /\ \E j \in 1..Len(interpolations[k].x) :
                                interpolations[k].x[j] <= y0
                         /\ \E j \in 1..Len(interpolations[k].x) :
                                interpolations[k].x[j] >= y0)

C16_RoundTrip ==
    ReturnedCurve =>
        /\ raised = "none"
        /\ \A i \in 1..Len(args.y) :
              LET x_results == PiecewiseInterpolation_call(ret, args.y[i])
              IN  \E j \in 1..Len(x_results) :
                      x_results[j] = [lo |-> args.x[i], hi |-> args.x[i]]

\* C17: for f(x) = x^4 - x^2 on the symmetric grid of 501 points over
\* [-3, 3], find_indices_of_extrema finds 3 extrema, interpolate_and_invert
\* builds 4 inverses, the query 0.0 returns 3 values, the query -1.0 none and
\* the query 12.0 returns 2 values.
C17_QuarticQueries ==
    (/\ Returned("PiecewiseInterpolation.__call__")
     /\ locals.n_x = QuarticPoints) =>
        /\ Len(locals.extrema) = 3
        /\ Len(args.self.interpolations) = 4
        /\ (args.x = quartic_value(0)) => (Len(ret) = 3)
        /\ (args.x = quartic_value(0 - 1)) => (Len(ret) = 0)
        /\ (args.x = quartic_value(12)) => (Len(ret) = 2)

\* C18: invert_grid and interpolate_and_invert raise a ValueError when the
\* shapes of their two arrays differ, before a mask, an extremum or an
\* interpolation is computed and without a result; when the shapes agree
\* they go on past the shape check.
C18_ShapeCheckFirst ==
    /\ Returned("invert_grid") =>
          IF Len(args.fx) # Len(args.x)
          THEN raised = "ValueError" /\ ret = <<>> /\ locals = NoLocals
          ELSE raised = "none" /\ locals # NoLocals
    /\ Returned("interpolate_and_invert") =>
          IF Len(args.y) # Len(args.x)
          THEN raised = "ValueError" /\ ret = <<>> /\ locals = NoLocals
          ELSE locals # NoLocals

\* interpolate_and_invert(x, [0, 1]) for an x of three points.
C18_Witness ==
    /\ Returned("interpolate_and_invert")
    /\ Len(args.x) = 3
    /\ args.y = <<0, 1>>
    /\ raised = "ValueError"
    /\ ret = <<>>

\* How often the entry v occurs in the sequence s.
Count(s, v) == Cardinality({k \in 1..Len(s) : s[k] = v})

\* C21: intersection(A, B) and intersection(B, A) contain the same intervals
\* with the same multiplicities; only the order of the entries may differ.
C21_Commutes ==
    Returned("intersection") =>
        LET swapped == intersection(args.list_of_intervals_2,
                                    args.list_of_intervals_1)
        IN  /\ Len(swapped) = Len(ret)
            /\ \A k \in 1..Len(ret) : Count(swapped, ret[k]) = Count(ret, ret[k])

\* Two lists whose intersection has three entries, in another order when the
\* lists are swapped.
C21_Witness ==
    /\ Returned("intersection")
    /\ args.list_of_intervals_1 = << <<0, 1>>, <<0, 0>> >>
    /\ args.list_of_intervals_2 = << <<0, 0>>, <<1, 1>> >>
    /\ ret = << <<0, 0>>, <<1, 1>>, <<0, 0>> >>
    /\ intersection(args.list_of_intervals_2, args.list_of_intervals_1)
           = << <<0, 0>>, <<0, 0>>, <<1, 1>> >>

\* C22: without return_intervals find_delta_brute_force returns the pair
\* (delta_results, delta_matches): delta_matches has n_delta entries,
\* delta_results is the subsequence of the sampled parameters at the indices
\* where delta_matches is True, in ascending index order, and has as many
\* entries as delta_matches has True ones.
C22_ResultsFollowMask ==
    (ReturnedFindDelta /\ ~args.return_intervals) =>
        LET delta_results == ret[1]
            delta_matches == ret[2]
            marked == SelectSeq(Indices(args.n_delta),
                                LAMBDA k : ret[2][k])
        IN  /\ Len(ret) = 2
            /\ Len(delta_matches) = args.n_delta
            /\ Len(locals.deltas) = args.n_delta
            /\ delta_results = [j \in 1..Len(marked) |-> locals.deltas[marked[j]]]
            /\ Len(delta_results)
                   = Cardinality({k \in 1..args.n_delta : delta_matches[k]})

\* Three samples, the first and the last match.
C22_Witness ==
    /\ ReturnedFindDelta
    /\ ~args.return_intervals
    /\ args.n_delta = 3
    /\ args.value = <<0, 0>>
    /\ args.atol = 0
    /\ args.ana_pow = <<0, 1, 0>>
    /\ ret = << <<-6, 6>>, <<TRUE, FALSE, TRUE>> >>

\* A finite observable outside the band of the target, whatever the order of
\* the limits of a range is.
OrdinaryNonMatching(value, atol) == TargetHi(value) + atol + 1

\* The observables with every non-finite one replaced by an ordinary
\* non-matching one.
WithoutNonFinite(ana_pow, value, atol) ==
    [i \in 1..Len(ana_pow) |->
        IF ana_pow[i] \in NonFinite THEN OrdinaryNonMatching(value, atol)
        ELSE ana_pow[i]]

\* What the called routine does for other observables, all else equal.
FindDeltaWith(ana_pow) ==
    IF op = "find_delta_brute_force"
    THEN find_delta_brute_force(args.value, args.delta_values, args.n_delta,
                                args.atol, args.return_intervals, ana_pow)
    ELSE AnalyzingPower_find_delta_brute_force(
             args.value, args.delta_values, args.n_delta, args.atol,
             args.return_intervals, ana_pow)

Sequential ==
    IF op = "invert_grid"
    THEN LET r == invert_grid(args.x, args.fx, args.y, args.atol, TRUE)
         IN  [ret |-> r.ret, mask |-> r.locals.inequality]
    ELSE LET r == find_delta_brute_force(args.value, args.delta_values,
                                         args.n_delta, args.atol, TRUE,
                                         args.ana_pow)
         IN  [ret |-> r.ret, mask |-> r.locals.delta_matches]

\* The samples the intervals are made of.
ParallelSamples ==
    IF op = "invert_grid" THEN args.x ELSE find_delta_deltas(args.n_delta)

\* C25: with the classification of the samples shared out among workers that
\* each write only their own slots of the mask, in any interleaving, and the
\* coalescing run once afterwards over the complete mask in index order, the
\* mask and the intervals are those of the sequential execution; a run of
\* matching samples, also one that spans samples of different workers, gives
\* one interval, which starts at the first sample of the run.
C25_ParallelAsSequential ==
    /\ (pc = "classify") =>
           \A i \in locals.written : locals.mask[i] = Sequential.mask[i]
    /\ (pc = "done") =>
           /\ locals.mask = Sequential.mask
           /\ ret = Sequential.ret
           /\ LET starts == RunStarts(locals.mask)
              IN  /\ Len(ret) = Len(starts)
                  /\ \A j \in 1..Len(starts) :
                         ret[j][1] = ParallelSamples[starts[j]]

\* A run of two samples that belong to different workers, the second worker
\* having written its slots first.
C25_Witness ==
    /\ pc = "done"
    /\ op = "invert_grid"
    /\ args.x = <<10, 20, 30, 40>>
    /\ args.fx = <<0, 1, 1, 0>>
    /\ args.y = <<1>>
    /\ args.owner = <<1, 1, 2, 2>>
    /\ ret = << <<20, 30>> >>

\* The values y[a], ..., y[b] never fall, and never rise.
NonDecreasing(y, a, b) == \A k \in a..(b - 1) : At(y, k) <= At(y, k + 1)

NonIncreasing(y, a, b) == \A k \in a..(b - 1) : At(y, k) >= At(y, k + 1)

Rises(y, a, b) == NonDecreasing(y, a, b) /\ At(y, a) < At(y, b)

Falls(y, a, b) == NonIncreasing(y, a, b) /\ At(y, a) > At(y, b)

\* C26: on every segment that interpolate_and_invert cuts at the indices
\* returned by find_indices_of_extrema the values of y are non-decreasing or
\* non-increasing, and of two consecutive segments one rises and the other
\* falls.
C26_MonotonicSegments ==
    Returned("find_indices_of_extrema") =>
        LET y == args.y
            segments == interpolate_and_invert_slices(Len(y), ret)
        IN  /\ \A k \in 1..Len(segments) :
                   \/ NonDecreasing(y, segments[k][1], segments[k][2])
                   \/ NonIncreasing(y, segments[k][1], segments[k][2])
            /\ \A k \in 1..(Len(segments) - 1) :
                   \/ /\ Rises(y, segments[k][1], segments[k][2])
                      /\ Falls(y, segments[k + 1][1], segments[k + 1][2])
                   \/ /\ Falls(y, segments[k][1], segments[k][2])
                      /\ Rises(y, segments[k + 1][1], segments[k + 1][2])

\* Three segments, two of them with a run of equal values.
C26_Witness ==
    /\ Returned("find_indices_of_extrema")
    /\ args.y = <<1, 1, 0, 0, 2, 2, 1>>
    /\ ret = <<2, 4>>

\* s..e is a maximal run of two or more equal consecutive values of y.
Plateau(y, s, e) ==
    /\ 0 <= s /\ s < e /\ e <= Len(y) - 1
    /\ \A k \in s..e : At(y, k) = At(y, s)
    /\ s = 0 \/ At(y, s - 1) # At(y, s)
    /\ e = Len(y) - 1 \/ At(y, e + 1) # At(y, s)

\* The positions of the result that hold an index of s..e.
Contributed(indices, s, e) ==
    {j \in 1..Len(indices) : s <= indices[j] /\ indices[j] <= e}

\* C27: a plateau between a value before it and a value after it that are
\* both larger or both smaller than its own contributes exactly one index to
\* the result of find_indices_of_extrema, its first; a plateau that starts at
\* index 0 or ends at index N-1 contributes none.
C27_PlateauFirstIndex ==
    Returned("find_indices_of_extrema") =>
        LET y == args.y
        IN  \A s \in 0..(Len(y) - 1) : \A e \in 0..(Len(y) - 1) :
                Plateau(y, s, e) =>
                    /\ (s = 0 \/ e = Len(y) - 1) =>
                           Contributed(ret, s, e) = {}
                    /\ (/\ s > 0 /\ e < Len(y) - 1
                        /\ \/ At(y, s - 1) > At(y, s) /\ At(y, e + 1) > At(y, s)
                           \/ At(y, s - 1) < At(y, s) /\ At(y, e + 1) < At(y, s)) =>
                           /\ Cardinality(Contributed(ret, s, e)) = 1
                           /\ \E j \in 1..Len(ret) : ret[j] = s

\* A plateau at the start, one that is a minimum, and one at the end.
C27_Witness ==
    /\ Returned("find_indices_of_extrema")
    /\ args.y = <<1, 1, 0, 0, 0, 2, 2>>
    /\ ret = <<2>>

\* C28: a query y0 that equals the value of y at an extremum index e is
\* accepted by the two segments that share the sample e, so that the result
\* of PiecewiseInterpolation.__call__(y0) contains x[e] twice, once for each
\* of the two segments.
C28_SharedSampleTwice ==
    Returned("PiecewiseInterpolation.__call__") =>
        \A k \in 1..Len(locals.extrema) :
            LET inter == args.self.interpolations[k]
                x_e == inter.y[Len(inter.y)]
                y_e == inter.x[Len(inter.x)]
            IN  (args.x = y_e) =>
                    Count(ret, [lo |-> x_e, hi |-> x_e]) >= 2

\* Twice the real points at which lists of intervals are compared: the whole
\* numbers of the model, the points half way between two of them, and a
\* point on either side of all of them.
DoubledPoints == (0 - 1)..(2 * MaxVal + 1)

\* The point p2 / 2 lies in some interval of the list L.
Covers(L, p2) ==
    \E k \in 1..Len(L) : 2 * Min2(L[k]) <= p2 /\ p2 <= 2 * Max2(L[k])

\* Third lists of intervals, of one or two entries.
ThirdLists ==
    {<<>>} \cup {<<p>> : p \in Pairs} \cup [1..2 -> ListPairs]

\* C29: a point lies in some interval of intersection(L1, L2) iff it lies in
\* some interval of L1 and in some interval of L2, whatever the lists hold
\* (overlapping, unsorted, degenerate intervals); hence for every third list
\* C, intersection(intersection(L1, L2), C) and
\* intersection(L1, intersection(L2, C)) cover the same points (compared for
\* three lists of at most MaxListTotal intervals altogether).
C29_PointSets ==
    Returned("intersection") =>
        LET L1 == args.list_of_intervals_1
            L2 == args.list_of_intervals_2
        IN  /\ \A p2 \in DoubledPoints :
                   Covers(ret, p2) <=> (Covers(L1, p2) /\ Covers(L2, p2))
            /\ (Len(L1) + Len(L2) + 2 <= MaxListTotal) =>
                   \A C \in ThirdLists :
                       LET left == intersection(ret, C)
                           right == intersection(L1, intersection(L2, C))
                       IN  \A p2 \in DoubledPoints :
                               Covers(left, p2) <=> Covers(right, p2)

\* An unsorted interval against two degenerate ones that it holds.
C29_Witness ==
    /\ Returned("intersection")
    /\ args.list_of_intervals_1 = << <<1, 0>> >>
    /\ args.list_of_intervals_2 = << <<0, 0>>, <<1, 1>> >>
    /\ ret = << <<0, 0>>, <<1, 1>> >>

\* The (1-based) index of the sample v of a grid x of distinct samples.
IndexOf(x, v) == CHOOSE i \in 1..Len(x) : x[i] = v

\* The intervals of samples as pairs of indices.
IndexRanges(x, intervals) ==
    [j \in 1..Len(intervals) |->
        <<IndexOf(x, intervals[j][1]), IndexOf(x, intervals[j][2])>>]

\* C30: the intervals that invert_grid returns with return_intervals, read as
\* ranges of sample indices, partition the matching samples: they come in
\* ascending order, are pairwise disjoint and separated by at least one
\* sample that does not match; every matching index lies in exactly one
\* range and no other index lies in any.
C30_IntervalsPartition ==
    (ReturnedGrid /\ args.return_intervals) =>
        LET mask == BandMask(args.fx, args.y, args.atol)
            ranges == IndexRanges(args.x, ret)
            holding(i) == {j \in 1..Len(ranges) :
                              ranges[j][1] <= i /\ i <= ranges[j][2]}
        IN  /\ \A j \in 1..Len(ranges) : ranges[j][1] <= ranges[j][2]
            /\ \A j \in 1..(Len(ranges) - 1) :
                   /\ ranges[j][2] < ranges[j + 1][1]
                   /\ \E i \in (ranges[j][2] + 1)..(ranges[j + 1][1] - 1) :
                          ~mask[i]
            /\ \A i \in 1..Len(mask) :
                   IF mask[i] THEN Cardinality(holding(i)) = 1
                   ELSE holding(i) = {}

\* Two runs with one sample between them that does not match.
C30_Witness ==
    /\ ReturnedGrid
    /\ args.return_intervals
    /\ args.x = <<10, 20, 30>>
    /\ args.fx = <<1, 2, 1>>
    /\ args.y = <<1>>
    /\ args.atol = 0
    /\ ret = << <<10, 10>>, <<30, 30>> >>

====
